---- MODULE Spec2Model ----
(***************************************************************************)
(* Model of src/src/app/canvas/SelectionHelper.ts:                         *)
(*   - SelectionHelper: the mouse gesture tracker of the canvas overlay    *)
(*     (onMouseDown / onMouseMove / onMouseUp / onMouseLeave);             *)
(*   - TimelineComponent.onPlayClick: the animation-frame play loop.       *)
(* Indices are 1-based here (the source is 0-based); only their order and  *)
(* equality matter to the handlers.  lastKnownMouseLocation is written by  *)
(* every handler and read by none of them; it is left out.  A handler that *)
(* throws (a TypeError on an undefined value) stops where it throws and    *)
(* keeps the assignments it made before.                                   *)
(***************************************************************************)
EXTENDS Integers, Sequences, FiniteSets, TLC

\* ---------------------------------------------------------------- bounds
NumSub == 2          \* sub-paths of the active path
BaseCmds == 2        \* backing commands per sub-path (the first is the move)
MaxSplits == 2       \* split points cut from one command of the initial path
MaxT == 1            \* projection parameters t are drawn from 1..MaxT
MaxCoord == 1        \* mouse points are 0..MaxCoord on a line
MaxHits == 1         \* total number of entries of a hit-test result
MaxLoops == 2        \* onPlayClick calls
MaxFrames == 5       \* frame callbacks that run
MaxTicks == 4        \* frame timestamps are 0, TimeStep, ..., MaxTicks * TimeStep
TimeStep == 500
MaxList == 3         \* length of the hit lists given to findHitPoint/Segment/SubPath

\* ------------------------------------------------------------- variables
VARIABLES
  pathData,                    \* component.activePathLayer.pathData
  isFilled, isStroked,         \* component.activePathLayer.isFilled()/isStroked()
  currentDraggableSplitIndex,
  projectionOntoPath,
  isDragTriggered_,
  initialMouseDown,
  call,                        \* the last handler call: its inputs and whether it threw
  effects,                     \* what the last handler call did to its collaborators, in order
  startingPathOfCall,          \* pathData when the last handler call began
  mutations,                   \* the mutator calls of the last handler call, in order
  lastDownHit,                 \* history: split point hit by the most recent onMouseDown
  dragStartPath,               \* history: pathData when the drag was triggered
  armedGesture,                \* history: a mouse down armed a split point and no up/leave followed
  loops,                       \* TimelineComponent: one onAnimationFrame closure per onPlayClick
  emitted,                     \* what animationFractionChangedEmitter emitted, in order
  lastFrame,                   \* the last frame callback that ran
  findHits,                    \* a hit list: the argument of a findHit... call
  findResult                   \* the function called on findHits and what it returned

selVars == <<pathData, isFilled, isStroked, currentDraggableSplitIndex, projectionOntoPath,
             isDragTriggered_, initialMouseDown, call, effects,
             startingPathOfCall, mutations, lastDownHit, dragStartPath, armedGesture>>
playVars == <<loops, emitted, lastFrame>>
findVars == <<findHits, findResult>>
vars == <<selVars, playVars, findVars>>

\* ------------------------------------------------------------ path data
\* A command of a sub-path.  orig names the backing command it was cut from.
Cmd(orig, isSplitPoint, isSplitSegment, t) ==
  [orig |-> orig, isSplitPoint |-> isSplitPoint, isSplitSegment |-> isSplitSegment, t |-> t]

\* The commands of one sub-path built from BaseCmds backing commands, with
\* splits[k] split points cut from backing command k.
RECURSIVE BuildCmds(_, _, _)
BuildCmds(k, splits, seg) ==
  IF k > BaseCmds THEN <<>>
  ELSE [i \in 1..(IF k = 1 THEN 0 ELSE splits[k]) |-> Cmd(k, TRUE, FALSE, 1)]
       \o <<Cmd(k, FALSE, seg /\ k = BaseCmds, 0)>>
       \o BuildCmds(k + 1, splits, seg)

SubPath(isSplit, splits) == [isSplit |-> isSplit, cmds |-> BuildCmds(1, splits, isSplit)]
NoSplits == [k \in 2..BaseCmds |-> 0]

\* The paths a run starts from: the first sub-path has up to MaxSplits split
\* points in each of its commands, the others have none and may be split
\* sub-paths (whose closing command is then a split segment).
InitPaths ==
  { [s \in 1..NumSub |-> IF s = 1 THEN SubPath(FALSE, splits) ELSE SubPath(b[s], NoSplits)] :
      splits \in [2..BaseCmds -> 0..MaxSplits], b \in [2..NumSub -> BOOLEAN] }

SubIdxs(path) == 1..Len(path)
CmdIdxs(path, subIdx) == 1..Len(path[subIdx].cmds)
getSubPath(path, subIdx) == path[subIdx]
getCommand(path, subIdx, cmdIdx) == path[subIdx].cmds[cmdIdx]
AllCmdIndices(path) == UNION { { <<s, c>> : c \in CmdIdxs(path, s) } : s \in SubIdxs(path) }

\* ------------------------------------------------------- optional values
Undefined == [def |-> FALSE, subIdx |-> 0, cmdIdx |-> 0, t |-> 0]
Index(subIdx, cmdIdx) == [def |-> TRUE, subIdx |-> subIdx, cmdIdx |-> cmdIdx, t |-> 0]
Projection(subIdx, cmdIdx, t) == [def |-> TRUE, subIdx |-> subIdx, cmdIdx |-> cmdIdx, t |-> t]
NoPoint == -1
Points == 0..MaxCoord
DragTriggerTouchSlop == 0      \* component.dragTriggerTouchSlop
distance(a, b) == IF a >= b THEN a - b ELSE b - a

\* --------------------------------------------------------- hit testing
\* component.performHitTest(point) is the overlay's geometry test; its result
\* is an input here: three lists of hits over the commands and sub-paths of
\* the active path, MaxHits entries in all.
SeqsOfLen(S, n) == [1..n -> S]
Lens == { l \in (0..MaxHits) \X (0..MaxHits) \X (0..MaxHits) : l[1] + l[2] + l[3] <= MaxHits }
HitResults(path) ==
  UNION { [endPointHits : SeqsOfLen(AllCmdIndices(path), l[1]),
           segmentHits  : SeqsOfLen(AllCmdIndices(path), l[2]),
           shapeHits    : SeqsOfLen(SubIdxs(path), l[3])] : l \in Lens }
isEndPointHit(hit) == Len(hit.endPointHits) > 0
isSegmentHit(hit) == Len(hit.segmentHits) > 0
isShapeHit(hit) == Len(hit.shapeHits) > 0
isHit(hit) == isEndPointHit(hit) \/ isSegmentHit(hit) \/ isShapeHit(hit)

\* Mutant of FindLastIndex: _.findIndex, the least such position.
FindLastIndex_First(tests) ==
  LET hitsAt == { i \in 1..Len(tests) : tests[i] }
  IN IF hitsAt = {} THEN 0 ELSE CHOOSE i \in hitsAt : \A j \in hitsAt : i <= j

\* _.findLastIndex, given the predicate's value on each element: the greatest
\* position whose element satisfies it, 0 when there is none (-1 in the source).
FindLastIndex(tests) ==
  LET hitsAt == { i \in 1..Len(tests) : tests[i] }
  IN IF hitsAt = {} THEN 0 ELSE CHOOSE i \in hitsAt : \A j \in hitsAt : j <= i

findHitSubPath(path, hits) ==
  LET infos == [i \in 1..Len(hits) |-> [subIdx |-> hits[i], subPath |-> getSubPath(path, hits[i])]]
      lastSplitIndex == FindLastIndex([i \in 1..Len(infos) |-> infos[i].subPath.isSplit])
  IN infos[IF lastSplitIndex < 1 THEN Len(infos) ELSE lastSplitIndex]

findHitSegment(path, hits) ==
  LET infos == [i \in 1..Len(hits) |->
                  [subIdx |-> hits[i][1], cmdIdx |-> hits[i][2],
                   cmd |-> getCommand(path, hits[i][1], hits[i][2])]]
      lastSplitIndex == FindLastIndex([i \in 1..Len(infos) |-> infos[i].cmd.isSplitSegment])
  IN infos[IF lastSplitIndex < 1 THEN Len(infos) ELSE lastSplitIndex]

findHitPoint(path, hits) ==
  LET infos == [i \in 1..Len(hits) |->
                  [subIdx |-> hits[i][1], cmdIdx |-> hits[i][2],
                   cmd |-> getCommand(path, hits[i][1], hits[i][2])]]
      lastSplitIndex == FindLastIndex([i \in 1..Len(infos) |-> infos[i].cmd.isSplitPoint])
  IN infos[IF lastSplitIndex < 1 THEN Len(infos) ELSE lastSplitIndex]

\* The sub-path indices of a list of segment hits ({subIdx, cmdIdx} read as {subIdx}).
SubIdxsOf(hits) == [i \in 1..Len(hits) |-> hits[i][1]]

\* ------------------------------------------------------------- effects
\* What a handler does to the store, the hover service and the component.
Effect(kind, type, subIdx, cmdIdx, flag, path) ==
  [kind |-> kind, type |-> type, subIdx |-> subIdx, cmdIdx |-> cmdIdx, flag |-> flag, path |-> path]
TogglePointSelection(subIdx, cmdIdx, isShiftOrMetaPressed) ==
  Effect("TogglePointSelection", "", subIdx, cmdIdx, isShiftOrMetaPressed, <<>>)
ToggleSegmentSelections(subIdx, cmdIdx) == Effect("ToggleSegmentSelections", "", subIdx, cmdIdx, FALSE, <<>>)
ToggleSubPathSelection(subIdx) == Effect("ToggleSubPathSelection", "", subIdx, 0, FALSE, <<>>)
SetSelections == Effect("SetSelections", "", 0, 0, FALSE, <<>>)
UpdateActivePathBlock(path) == Effect("UpdateActivePathBlock", "", 0, 0, FALSE, path)
setHover(type, subIdx, cmdIdx) == Effect("setHover", type, subIdx, cmdIdx, FALSE, <<>>)
resetCalled == Effect("reset", "", 0, 0, FALSE, <<>>)
draw == Effect("draw", "", 0, 0, FALSE, <<>>)

NoHit == [endPointHits |-> <<>>, segmentHits |-> <<>>, shapeHits |-> <<>>]

\* What a handler call was given: its flag, what its hit test resolved to, and
\* for onMouseUp the gesture it ended (whether a drag was triggered, the armed
\* split index, the stored projection) and the re-projection it computed.
HitSeen(path, hit) ==
  [isHit |-> isHit(hit),
   endPoint |-> IF isEndPointHit(hit)
                THEN Index(findHitPoint(path, hit.endPointHits).subIdx,
                           findHitPoint(path, hit.endPointHits).cmdIdx)
                ELSE Undefined,
   isSplitPoint |-> isEndPointHit(hit) /\ findHitPoint(path, hit.endPointHits).cmd.isSplitPoint]
Call(name, shift, hit, thrown, drag, old, proj, temp) ==
  [name |-> name, shift |-> shift, hit |-> hit, thrown |-> thrown,
   drag |-> drag, old |-> old, proj |-> proj, temp |-> temp]

\* Mutant of checkForHovers: no early return while a split point is armed.
checkForHovers_WhileArmed(cur, path, filled, stroked, hit) ==
  IF ~isHit(hit) THEN <<setHover("undefined", 0, 0)>>
  ELSE IF isEndPointHit(hit)
    THEN LET h == findHitPoint(path, hit.endPointHits)
         IN <<setHover("Point", h.subIdx, h.cmdIdx)>>
  ELSE IF isSegmentHit(hit) /\ filled
          /\ getCommand(path, findHitSegment(path, hit.segmentHits).subIdx,
                        findHitSegment(path, hit.segmentHits).cmdIdx).isSplitSegment
    THEN LET h == findHitSegment(path, hit.segmentHits)
         IN <<setHover("Segment", h.subIdx, h.cmdIdx)>>
  ELSE IF isSegmentHit(hit) /\ ~filled /\ stroked
    THEN <<setHover("SubPath", findHitSegment(path, hit.segmentHits).subIdx, 0)>>
  ELSE IF isShapeHit(hit) /\ filled
    THEN <<setHover("SubPath", findHitSubPath(path, hit.shapeHits).subIdx, 0)>>
  ELSE <<>>

\* checkForHovers(mousePoint), given the armed split index at the time of the
\* call and the hit-test result at the mouse point: the setHover calls it makes.
checkForHovers(cur, path, filled, stroked, hit) ==
  IF cur.def THEN <<>>
  ELSE IF ~isHit(hit) THEN <<setHover("undefined", 0, 0)>>
  ELSE IF isEndPointHit(hit)
    THEN LET h == findHitPoint(path, hit.endPointHits)
         IN <<setHover("Point", h.subIdx, h.cmdIdx)>>
  ELSE IF isSegmentHit(hit) /\ filled
          /\ getCommand(path, findHitSegment(path, hit.segmentHits).subIdx,
                        findHitSegment(path, hit.segmentHits).cmdIdx).isSplitSegment
    THEN LET h == findHitSegment(path, hit.segmentHits)
         IN <<setHover("Segment", h.subIdx, h.cmdIdx)>>
  ELSE IF isSegmentHit(hit) /\ ~filled /\ stroked
    THEN <<setHover("SubPath", findHitSegment(path, hit.segmentHits).subIdx, 0)>>
  ELSE IF isShapeHit(hit) /\ filled
    THEN <<setHover("SubPath", findHitSubPath(path, hit.shapeHits).subIdx, 0)>>
  ELSE <<>>

\* ------------------------------------------------------- SelectionHelper
InitSel ==
  /\ pathData \in InitPaths
  \* isStroked() is read only where isFilled() is false
  /\ isFilled \in BOOLEAN
  /\ isStroked \in (IF isFilled THEN {FALSE} ELSE BOOLEAN)
  /\ currentDraggableSplitIndex = Undefined
  /\ projectionOntoPath = Undefined
  /\ isDragTriggered_ = FALSE
  /\ initialMouseDown = NoPoint
  /\ call = Call("constructor", FALSE, HitSeen(pathData, NoHit), FALSE,
                 FALSE, Undefined, Undefined, Undefined)
  /\ effects = <<>>
  /\ startingPathOfCall = pathData
  /\ mutations = <<>>
  /\ lastDownHit = Undefined
  /\ dragStartPath = pathData
  /\ armedGesture = FALSE

\* The store actions onMouseDown dispatches and the split index it arms
\* (Undefined: it arms none).
MouseDownArms(path, hit) ==
  IF isEndPointHit(hit) /\ findHitPoint(path, hit.endPointHits).cmd.isSplitPoint
  THEN LET h == findHitPoint(path, hit.endPointHits) IN Index(h.subIdx, h.cmdIdx)
  ELSE Undefined

\* Mutant of MouseDownDispatches: a split point is selected at once.
MouseDownDispatches_SelectsSplitPoint(path, filled, hit, isShiftOrMetaPressed) ==
  IF isEndPointHit(hit)
  THEN LET h == findHitPoint(path, hit.endPointHits)
       IN <<TogglePointSelection(h.subIdx, h.cmdIdx, isShiftOrMetaPressed)>>
  ELSE IF filled /\ isSegmentHit(hit) /\ findHitSegment(path, hit.segmentHits).cmd.isSplitSegment
  THEN LET h == findHitSegment(path, hit.segmentHits)
       IN <<ToggleSegmentSelections(h.subIdx, h.cmdIdx)>>
  ELSE IF isSegmentHit(hit) \/ isShapeHit(hit)
  THEN LET hits == IF isShapeHit(hit) THEN hit.shapeHits ELSE SubIdxsOf(hit.segmentHits)
       IN <<ToggleSubPathSelection(findHitSubPath(path, hits).subIdx)>>
  ELSE IF ~isShiftOrMetaPressed THEN <<SetSelections>>
  ELSE <<>>

\* Mutant of MouseDownDispatches: a miss clears the selections whatever the keys.
MouseDownDispatches_AlwaysClears(path, filled, hit, isShiftOrMetaPressed) ==
  IF isEndPointHit(hit)
  THEN LET h == findHitPoint(path, hit.endPointHits)
       IN IF h.cmd.isSplitPoint THEN <<>>
          ELSE <<TogglePointSelection(h.subIdx, h.cmdIdx, isShiftOrMetaPressed)>>
  ELSE IF filled /\ isSegmentHit(hit) /\ findHitSegment(path, hit.segmentHits).cmd.isSplitSegment
  THEN LET h == findHitSegment(path, hit.segmentHits)
       IN <<ToggleSegmentSelections(h.subIdx, h.cmdIdx)>>
  ELSE IF isSegmentHit(hit) \/ isShapeHit(hit)
  THEN LET hits == IF isShapeHit(hit) THEN hit.shapeHits ELSE SubIdxsOf(hit.segmentHits)
       IN <<ToggleSubPathSelection(findHitSubPath(path, hits).subIdx)>>
  ELSE <<SetSelections>>

MouseDownDispatches(path, filled, hit, isShiftOrMetaPressed) ==
  IF isEndPointHit(hit)
  THEN LET h == findHitPoint(path, hit.endPointHits)
       IN IF h.cmd.isSplitPoint THEN <<>>
          ELSE <<TogglePointSelection(h.subIdx, h.cmdIdx, isShiftOrMetaPressed)>>
  ELSE IF filled /\ isSegmentHit(hit) /\ findHitSegment(path, hit.segmentHits).cmd.isSplitSegment
  THEN LET h == findHitSegment(path, hit.segmentHits)
       IN <<ToggleSegmentSelections(h.subIdx, h.cmdIdx)>>
  ELSE IF isSegmentHit(hit) \/ isShapeHit(hit)
  THEN LET hits == IF isShapeHit(hit) THEN hit.shapeHits ELSE SubIdxsOf(hit.segmentHits)
       IN <<ToggleSubPathSelection(findHitSubPath(path, hits).subIdx)>>
  ELSE IF ~isShiftOrMetaPressed THEN <<SetSelections>>
  ELSE <<>>

onMouseDown(mouseDown, isShiftOrMetaPressed, hit) ==
  LET armed == MouseDownArms(pathData, hit) IN
  /\ initialMouseDown' = mouseDown
  /\ currentDraggableSplitIndex' = IF armed.def THEN armed ELSE currentDraggableSplitIndex
  /\ effects' = MouseDownDispatches(pathData, isFilled, hit, isShiftOrMetaPressed)
  /\ call' = Call("onMouseDown", isShiftOrMetaPressed, HitSeen(pathData, hit), FALSE,
                  FALSE, Undefined, Undefined, Undefined)
  /\ startingPathOfCall' = pathData
  /\ mutations' = <<>>
  /\ lastDownHit' = armed
  /\ armedGesture' = (armed.def \/ armedGesture)
  /\ UNCHANGED <<pathData, isFilled, isStroked, projectionOntoPath, isDragTriggered_,
                 dragStartPath, playVars, findVars>>

\* calculateProjectionOntoPath: path.project() is the geometry library's; its
\* result is an input: nothing, or a command of the path and a parameter t.
Projections(path) ==
  {Undefined} \cup { Projection(sc[1], sc[2], t) : sc \in AllCmdIndices(path), t \in 1..MaxT }

onMouseMove(mouseMove, proj, hit) ==
  LET triggered == \/ isDragTriggered_
                   \/ /\ currentDraggableSplitIndex.def
                      /\ DragTriggerTouchSlop < distance(initialMouseDown, mouseMove)
      \* MathUtil.distance reads initialMouseDown.x; reading
      \* currentDraggableSplitIndex.subIdx of undefined is a TypeError
      thrown == \/ currentDraggableSplitIndex.def /\ initialMouseDown = NoPoint
                \/ triggered /\ ~currentDraggableSplitIndex.def
  IN
  /\ isDragTriggered_' = IF currentDraggableSplitIndex.def /\ initialMouseDown = NoPoint
                         THEN isDragTriggered_ ELSE triggered
  /\ projectionOntoPath' = IF triggered /\ ~thrown THEN proj ELSE projectionOntoPath
  /\ effects' = IF thrown THEN <<>>
                ELSE IF triggered THEN <<draw>>
                ELSE checkForHovers(currentDraggableSplitIndex, pathData, isFilled, isStroked, hit)
                     \o <<draw>>
  /\ call' = Call("onMouseMove", FALSE, HitSeen(pathData, hit), thrown,
                  FALSE, Undefined, Undefined, Undefined)
  /\ startingPathOfCall' = pathData
  /\ mutations' = <<>>
  /\ dragStartPath' = IF ~isDragTriggered_ /\ isDragTriggered_' THEN pathData ELSE dragStartPath
  /\ UNCHANGED <<pathData, isFilled, isStroked, currentDraggableSplitIndex, initialMouseDown,
                 lastDownHit, armedGesture, playVars, findVars>>

reset ==
  /\ initialMouseDown' = NoPoint
  /\ projectionOntoPath' = Undefined
  /\ currentDraggableSplitIndex' = Undefined
  /\ isDragTriggered_' = FALSE

onMouseLeave ==
  /\ reset
  /\ effects' = <<resetCalled, setHover("undefined", 0, 0), draw>>
  /\ call' = Call("onMouseLeave", FALSE, HitSeen(pathData, NoHit), FALSE,
                  FALSE, Undefined, Undefined, Undefined)
  /\ startingPathOfCall' = pathData
  /\ mutations' = <<>>
  /\ armedGesture' = FALSE
  /\ UNCHANGED <<pathData, isFilled, isStroked, lastDownHit, dragStartPath, playVars, findVars>>

\* ---------------------------------------------------------- path mutator
\* startingPath.mutate() ... build(): the mutator is the geometry library's.
\* splitCommand cuts a command in two at t: a new split point takes the
\* command's index and the rest of the command moves up by one;
\* unsplitCommand removes a split point and the commands after it move down
\* by one.  A call on a command that does not exist, or an unsplit of a
\* command that is not a split point, throws.
Split(subIdx, cmdIdx, t) == [op |-> "splitCommand", subIdx |-> subIdx, cmdIdx |-> cmdIdx, t |-> t]
Unsplit(subIdx, cmdIdx) == [op |-> "unsplitCommand", subIdx |-> subIdx, cmdIdx |-> cmdIdx, t |-> 0]

InsertAt(seq, i, e) == SubSeq(seq, 1, i - 1) \o <<e>> \o SubSeq(seq, i, Len(seq))
RemoveAt(seq, i) == SubSeq(seq, 1, i - 1) \o SubSeq(seq, i + 1, Len(seq))

splitCommand(path, subIdx, cmdIdx, t) ==
  LET cmds == path[subIdx].cmds
  IN [path EXCEPT ![subIdx].cmds = InsertAt(cmds, cmdIdx, Cmd(cmds[cmdIdx].orig, TRUE, FALSE, t))]

unsplitCommand(path, subIdx, cmdIdx) ==
  [path EXCEPT ![subIdx].cmds = RemoveAt(path[subIdx].cmds, cmdIdx)]

MutationThrows(path, m) ==
  \/ m.subIdx \notin SubIdxs(path)
  \/ m.cmdIdx \notin CmdIdxs(path, m.subIdx)
  \/ m.op = "unsplitCommand" /\ ~getCommand(path, m.subIdx, m.cmdIdx).isSplitPoint

Mutate(path, m) ==
  IF m.op = "splitCommand" THEN splitCommand(path, m.subIdx, m.cmdIdx, m.t)
  ELSE unsplitCommand(path, m.subIdx, m.cmdIdx)

\* The mutator after a chain of calls: the path it would build, the calls
\* that went through, and whether one of them threw.
RECURSIVE MutateAll(_, _, _)
MutateAll(path, ms, done) ==
  IF ms = <<>> THEN [path |-> path, applied |-> done, thrown |-> FALSE]
  ELSE IF MutationThrows(path, Head(ms)) THEN [path |-> path, applied |-> done, thrown |-> TRUE]
  ELSE MutateAll(Mutate(path, Head(ms)), Tail(ms), Append(done, Head(ms)))

\* ------------------------------------------------------------ onMouseUp
\* Mutant of DragMutations: the unsplit always goes first.
DragMutations_UnsplitFirst(old, new) ==
  IF new.cmdIdx # old.cmdIdx
  THEN <<Unsplit(old.subIdx, old.cmdIdx), Split(new.subIdx, new.cmdIdx, new.t)>>
  ELSE <<Unsplit(old.subIdx, old.cmdIdx)>>

\* Lines 110-121: the mutator calls onMouseUp makes before any re-projection.
DragMutations(old, new) ==
  IF new.cmdIdx > old.cmdIdx
  THEN <<Split(new.subIdx, new.cmdIdx, new.t), Unsplit(old.subIdx, old.cmdIdx)>>
  ELSE IF new.cmdIdx < old.cmdIdx
  THEN <<Unsplit(old.subIdx, old.cmdIdx), Split(new.subIdx, new.cmdIdx, new.t)>>
  ELSE <<Unsplit(old.subIdx, old.cmdIdx)>>

\* Reading .subIdx of an undefined projection or split index is a TypeError.
UpThrowsAtProjection ==
  isDragTriggered_ /\ (~projectionOntoPath.def \/ ~currentDraggableSplitIndex.def)

UpOnSameSubPath ==
  /\ isDragTriggered_ /\ projectionOntoPath.def /\ currentDraggableSplitIndex.def
  /\ projectionOntoPath.subIdx = currentDraggableSplitIndex.subIdx

UpEqualCmdIdx == UpOnSameSubPath /\ projectionOntoPath.cmdIdx = currentDraggableSplitIndex.cmdIdx

UpFirstMutations ==
  MutateAll(pathData, DragMutations(currentDraggableSplitIndex, projectionOntoPath), <<>>)

\* Line 121: the path the active layer holds once onMouseUp returns or throws.
UpPathData ==
  IF UpEqualCmdIdx /\ ~UpFirstMutations.thrown THEN UpFirstMutations.path ELSE pathData

\* Lines 122-131: the mutator after the re-projection of the equal-cmdIdx case.
UpMutator(tempProjOntoPath) ==
  IF ~UpEqualCmdIdx THEN UpFirstMutations
  ELSE IF tempProjOntoPath.subIdx = currentDraggableSplitIndex.subIdx
  THEN MutateAll(UpFirstMutations.path,
                 <<Split(tempProjOntoPath.subIdx, tempProjOntoPath.cmdIdx, tempProjOntoPath.t)>>,
                 UpFirstMutations.applied)
  ELSE [path |-> pathData, applied |-> UpFirstMutations.applied, thrown |-> FALSE]

UpThrows(tempProjOntoPath) ==
  \/ UpThrowsAtProjection
  \/ UpOnSameSubPath /\ UpFirstMutations.thrown
  \/ UpEqualCmdIdx /\ ~UpFirstMutations.thrown /\ ~tempProjOntoPath.def

\* Lines 145-156: the release of an armed split point that was not dragged.
ClickDispatches(path, hit, isShiftOrMetaPressed) ==
  IF ~isHit(hit) THEN <<SetSelections>>
  ELSE IF isEndPointHit(hit)
  THEN LET h == findHitPoint(path, hit.endPointHits)
       IN <<TogglePointSelection(h.subIdx, h.cmdIdx, isShiftOrMetaPressed)>>
  ELSE LET hits == IF isShapeHit(hit) THEN hit.shapeHits ELSE SubIdxsOf(hit.segmentHits)
       IN <<ToggleSubPathSelection(findHitSubPath(path, hits).subIdx)>>

UpEffects(isShiftOrMetaPressed, hit, tempProjOntoPath) ==
  (IF UpOnSameSubPath
   THEN <<setHover("undefined", 0, 0), SetSelections, resetCalled,
          UpdateActivePathBlock(UpMutator(tempProjOntoPath).path)>>
   ELSE IF ~isDragTriggered_ /\ currentDraggableSplitIndex.def
   THEN ClickDispatches(pathData, hit, isShiftOrMetaPressed)
   ELSE <<>>)
  \o <<resetCalled>>
  \o checkForHovers(Undefined, UpPathData, isFilled, isStroked, hit)
  \o <<draw>>

onMouseUp(isShiftOrMetaPressed, hit, tempProjOntoPath) ==
  /\ call' = Call("onMouseUp", isShiftOrMetaPressed, HitSeen(UpPathData, hit),
                  UpThrows(tempProjOntoPath), isDragTriggered_, currentDraggableSplitIndex,
                  projectionOntoPath, tempProjOntoPath)
  /\ startingPathOfCall' = pathData
  /\ armedGesture' = FALSE
  /\ pathData' = UpPathData
  /\ IF UpThrows(tempProjOntoPath)
     THEN /\ effects' = <<>>
          /\ mutations' = IF UpThrowsAtProjection THEN <<>> ELSE UpFirstMutations.applied
          /\ UNCHANGED <<initialMouseDown, projectionOntoPath, currentDraggableSplitIndex,
                         isDragTriggered_>>
     ELSE /\ reset
          /\ effects' = UpEffects(isShiftOrMetaPressed, hit, tempProjOntoPath)
          /\ mutations' = IF UpOnSameSubPath THEN UpMutator(tempProjOntoPath).applied ELSE <<>>
  /\ UNCHANGED <<isFilled, isStroked, lastDownHit, dragStartPath, playVars, findVars>>

\* ---------------------------------------------------- TimelineComponent
animationDuration == 1000
Null == -1
Timestamps == { k * TimeStep : k \in 0..MaxTicks }

\* The emitted numbers are quotients: <<n, d>> stands for n / d.
Quotient(n, d) == <<n, d>>
One == Quotient(1, 1)
LessThan(a, b) == a[1] * b[2] < b[1] * a[2]

\* !startTimestamp: null and 0 are both falsy.
IsFalsy(startTimestamp) == startTimestamp = Null \/ startTimestamp = 0

Loop(startTimestamp, requested, firstTimestamp, ones) ==
  [startTimestamp |-> startTimestamp,   \* the closure's variable
   requested |-> requested,             \* a requestAnimationFrame(onAnimationFrame) is pending
   firstTimestamp |-> firstTimestamp,   \* history: the timestamp of the loop's first frame
   ones |-> ones]                       \* history: how many times the loop emitted 1

NoFrame == [loop |-> 0, timestamp |-> 0, emitted |-> Quotient(0, 1), requested |-> FALSE,
            first |-> Null]

InitPlay ==
  /\ loops = <<>>
  /\ emitted = <<>>
  /\ lastFrame = NoFrame

onPlayClick ==
  /\ Len(loops) < MaxLoops
  /\ loops' = Append(loops, Loop(Null, TRUE, Null, 0))
  /\ UNCHANGED <<emitted, lastFrame, selVars, findVars>>

\* The start timestamp onAnimationFrame works with (lines 332-334).
StartOf(startTimestamp, timestamp) ==
  IF IsFalsy(startTimestamp) THEN timestamp ELSE startTimestamp

\* Mutant of ClosureStart: startTimestamp as one variable shared by all loops.
ClosureStart_Shared(i) == loops[1].startTimestamp

\* let startTimestamp: each onPlayClick call has its own.
ClosureStart(i) == loops[i].startTimestamp

\* The platform runs a requested callback; timestamps never go back.
onAnimationFrame(i, timestamp) ==
  LET loop == loops[i]
      startTimestamp == StartOf(ClosureStart(i), timestamp)
      progress == timestamp - startTimestamp
      first == IF loop.firstTimestamp = Null THEN timestamp ELSE loop.firstTimestamp
      running == progress < animationDuration
      value == IF running THEN Quotient(progress, animationDuration) ELSE One
  IN
  /\ loop.requested
  /\ timestamp >= lastFrame.timestamp
  /\ Len(emitted) < MaxFrames
  /\ emitted' = Append(emitted, value)
  /\ loops' = [loops EXCEPT ![i] =
                 Loop(IF running THEN startTimestamp ELSE Null, running, first,
                      loop.ones + (IF running THEN 0 ELSE 1))]
  /\ lastFrame' = [loop |-> i, timestamp |-> timestamp, emitted |-> value,
                   requested |-> running, first |-> first]
  /\ UNCHANGED <<selVars, findVars>>

\* ------------------------------------------------------- specifications
\* No findHit... call is made on its own outside FindSpec.
NoFind == [fn |-> "", subIdx |-> 0, cmdIdx |-> 0]
InitFind ==
  /\ findHits = <<>>
  /\ findResult = NoFind

Init == InitSel /\ InitPlay /\ InitFind

\* The inputs of a handler are enumerated only where the handler reads them.
DownUsesShift(hit) ==
  \/ ~isHit(hit)
  \/ isEndPointHit(hit) /\ ~findHitPoint(pathData, hit.endPointHits).cmd.isSplitPoint
UpUsesShift == ~isDragTriggered_ /\ currentDraggableSplitIndex.def
UpReprojects == UpEqualCmdIdx /\ ~UpFirstMutations.thrown
MoveTriggers(p) ==
  \/ isDragTriggered_
  \/ currentDraggableSplitIndex.def /\ DragTriggerTouchSlop < distance(initialMouseDown, p)

Next ==
  \/ \E p \in Points, hit \in HitResults(pathData) :
        \E shift \in (IF DownUsesShift(hit) THEN BOOLEAN ELSE {FALSE}) :
        onMouseDown(p, shift, hit)
  \/ \E p \in Points :
        \E proj \in (IF MoveTriggers(p) THEN Projections(pathData) ELSE {Undefined}),
           hit \in (IF currentDraggableSplitIndex.def THEN {NoHit} ELSE HitResults(pathData)) :
        onMouseMove(p, proj, hit)
  \/ \E shift \in (IF UpUsesShift THEN BOOLEAN ELSE {FALSE}),
        temp \in (IF UpReprojects THEN Projections(UpPathData) ELSE {Undefined}),
        hit \in (IF UpThrows(Undefined) /\ ~UpReprojects THEN {NoHit} ELSE HitResults(UpPathData)) :
        onMouseUp(shift, hit, temp)
  \/ onMouseLeave

Spec == Init /\ [][Next]_vars

PlayInit ==
  /\ pathData = [s \in 1..NumSub |-> SubPath(FALSE, NoSplits)]
  /\ isFilled = TRUE
  /\ isStroked = FALSE
  /\ InitSel
  /\ InitPlay
  /\ InitFind

PlayNext ==
  \/ onPlayClick
  \/ \E i \in 1..Len(loops), timestamp \in Timestamps : onAnimationFrame(i, timestamp)

PlaySpec == PlayInit /\ [][PlayNext]_vars

\* The three hit-list functions on their own: any path, any non-empty list of
\* hits on its commands (read as sub-path hits by findHitSubPath).
HitLists(path) == UNION { SeqsOfLen(AllCmdIndices(path), n) : n \in 1..MaxList }

FindInit ==
  /\ isFilled = TRUE
  /\ isStroked = FALSE
  /\ InitSel
  /\ InitPlay
  /\ findHits \in HitLists(pathData)
  /\ findResult = NoFind

callFindHitPoint ==
  /\ findResult' = [fn |-> "findHitPoint",
                    subIdx |-> findHitPoint(pathData, findHits).subIdx,
                    cmdIdx |-> findHitPoint(pathData, findHits).cmdIdx]
  /\ UNCHANGED <<findHits, selVars, playVars>>

callFindHitSegment ==
  /\ findResult' = [fn |-> "findHitSegment",
                    subIdx |-> findHitSegment(pathData, findHits).subIdx,
                    cmdIdx |-> findHitSegment(pathData, findHits).cmdIdx]
  /\ UNCHANGED <<findHits, selVars, playVars>>

callFindHitSubPath ==
  /\ findResult' = [fn |-> "findHitSubPath",
                    subIdx |-> findHitSubPath(pathData, SubIdxsOf(findHits)).subIdx,
                    cmdIdx |-> 0]
  /\ UNCHANGED <<findHits, selVars, playVars>>

FindNext == callFindHitPoint \/ callFindHitSegment \/ callFindHitSubPath

FindSpec == FindInit /\ [][FindNext]_vars

\* ================================================================ claims
Dispatched(kind) == { i \in DOMAIN effects : effects[i].kind = kind }

\* The last call was an onMouseUp that found a triggered drag with a split
\* index and a projection to read.
UpEndedDrag == call.name = "onMouseUp" /\ call.drag /\ call.old.def /\ call.proj.def
UpSameSubPath == UpEndedDrag /\ call.proj.subIdx = call.old.subIdx
UpSameCmd == UpSameSubPath /\ call.proj.cmdIdx = call.old.cmdIdx
\* ... and the drag was given up: the stored projection, or the re-projection
\* after the unsplit, is on another sub-path.
UpGaveUpAtRelease == UpEndedDrag /\ call.proj.subIdx # call.old.subIdx
UpGaveUpAfterUnsplit == UpSameCmd /\ call.temp.def /\ call.temp.subIdx # call.old.subIdx

\* C1: when onMouseUp gives a drag up, it dispatches no UpdateActivePathBlock
\* or one that carries the path that was active when the drag started.
C1_GivenUpDragLeavesStorePath ==
  (UpGaveUpAtRelease \/ UpGaveUpAfterUnsplit) =>
     \A i \in Dispatched("UpdateActivePathBlock") : effects[i].path = dragStartPath

\* C2: when the drag is given up after the unsplit, onMouseUp leaves the
\* starting path in activePathLayer.pathData.
C2_GivenUpDragLeavesPathData ==
  UpGaveUpAfterUnsplit => pathData = startingPathOfCall

\* C3: a frame less than animationDuration after the loop's first frame emits
\* (timestamp - first timestamp) / animationDuration and requests another
\* frame; a frame at least animationDuration after it emits 1 and requests none.
C3_PlayLoopRunsForDuration ==
  lastFrame.loop # 0 =>
    LET elapsed == lastFrame.timestamp - lastFrame.first
    IN IF elapsed < animationDuration
       THEN lastFrame.emitted = Quotient(elapsed, animationDuration) /\ lastFrame.requested
       ELSE lastFrame.emitted = One /\ ~lastFrame.requested

\* C4: every loop works from a start timestamp of its own frames, whatever
\* the other loops do, and has emitted 1 exactly once when it has stopped and
\* never before.
C4_LoopsAreIndependent ==
  \A i \in 1..Len(loops) :
    /\ loops[i].ones = (IF loops[i].requested THEN 0 ELSE 1)
    /\ (loops[i].requested /\ loops[i].firstTimestamp # Null) =>
          loops[i].startTimestamp >= loops[i].firstTimestamp
    /\ loops[i].firstTimestamp = Null => loops[i].startTimestamp = Null

\* Two loops ran to their end and the emitter said 1 and then something smaller.
C4_Witness ==
  /\ Len(loops) = 2
  /\ \A i \in 1..2 : ~loops[i].requested /\ loops[i].ones = 1
  /\ \E i, j \in 1..Len(emitted) : i < j /\ emitted[i] = One /\ LessThan(emitted[j], One)

\* The dragged split point and the projected command exist in the path
\* onMouseUp started from.
UpDraggedSplitPoint ==
  /\ UpSameSubPath
  /\ call.old.cmdIdx \in CmdIdxs(startingPathOfCall, call.old.subIdx)
  /\ getCommand(startingPathOfCall, call.old.subIdx, call.old.cmdIdx).isSplitPoint
  /\ call.proj.cmdIdx \in CmdIdxs(startingPathOfCall, call.proj.subIdx)

C6_SplitPointSelectionDeferred ==
  [][(call'.name = "onMouseDown" /\ call'.hit.endPoint.def) =>
       IF call'.hit.isSplitPoint
       THEN /\ effects' = <<>>
            /\ currentDraggableSplitIndex' = call'.hit.endPoint
       ELSE /\ effects' = <<TogglePointSelection(call'.hit.endPoint.subIdx,
                                                 call'.hit.endPoint.cmdIdx, call'.shift)>>
            /\ currentDraggableSplitIndex' = currentDraggableSplitIndex]_vars

C6_Witness ==
  /\ call.name = "onMouseDown" /\ call.hit.isSplitPoint
  /\ currentDraggableSplitIndex = call.hit.endPoint
  /\ effects = <<>>

\* C7: the armed split index is undefined or the split point hit by the most
\* recent onMouseDown.
C7_ArmedByLastMouseDown ==
  currentDraggableSplitIndex.def => currentDraggableSplitIndex = lastDownHit

\* C8: an onMouseDown that hits nothing dispatches SetSelections([]) when
\* shift/meta is not pressed and nothing when it is.
C8_MissClearsSelections ==
  (call.name = "onMouseDown" /\ ~call.hit.isHit) =>
     effects = (IF call.shift THEN <<>> ELSE <<SetSelections>>)

C8_Witness == call.name = "onMouseDown" /\ ~call.hit.isHit /\ call.shift /\ effects = <<>>

\* C9: between an onMouseDown that arms a split point and the next onMouseUp
\* or onMouseLeave, no onMouseMove calls hoverService.setHover.
C9_NoHoverWhileArmed ==
  (armedGesture /\ call.name = "onMouseMove") => Dispatched("setHover") = {}

C9_Witness ==
  armedGesture /\ call.name = "onMouseMove" /\ ~isDragTriggered_ /\ effects = <<draw>>

\* C10: an onMouseUp that ends a drag projected on the dragged point's
\* sub-path clears the hover, dispatches SetSelections([]), resets, and then
\* dispatches one UpdateActivePathBlock; it dispatches no selection toggle.
C10_CompletedDragOrder ==
  UpDraggedSplitPoint =>
    /\ Len(effects) >= 4
    /\ effects[1] = setHover("undefined", 0, 0)
    /\ effects[2] = SetSelections
    /\ effects[3] = resetCalled
    /\ effects[4].kind = "UpdateActivePathBlock"
    /\ Dispatched("UpdateActivePathBlock") = {4}
    /\ Dispatched("TogglePointSelection") = {}
    /\ Dispatched("ToggleSegmentSelections") = {}
    /\ Dispatched("ToggleSubPathSelection") = {}

\* The positions of findHits whose hit is split, for the function that was called.
SplitPositions ==
  { i \in 1..Len(findHits) :
      LET cmd == getCommand(pathData, findHits[i][1], findHits[i][2])
      IN CASE findResult.fn = "findHitPoint" -> cmd.isSplitPoint
           [] findResult.fn = "findHitSegment" -> cmd.isSplitSegment
           [] OTHER -> getSubPath(pathData, findHits[i][1]).isSplit }

\* The hit at a position, as the function that was called returns it.
ReturnedFor(i) ==
  [fn |-> findResult.fn, subIdx |-> findHits[i][1],
   cmdIdx |-> IF findResult.fn = "findHitSubPath" THEN 0 ELSE findHits[i][2]]

\* C11: findHitPoint, findHitSegment and findHitSubPath return the split hit
\* at the greatest list position, and the last hit when no hit is split.
C11_LastSplitElseLast ==
  findResult.fn # "" =>
    IF SplitPositions = {}
    THEN findResult = ReturnedFor(Len(findHits))
    ELSE \E i \in SplitPositions :
            /\ \A j \in SplitPositions : j <= i
            /\ findResult = ReturnedFor(i)

\* A split hit was returned although a hit that is not split came after it
\* and another split hit came before it.
C11_Witness ==
  /\ findResult.fn = "findHitPoint"
  /\ Len(findHits) = 3
  /\ SplitPositions = {1, 2}
  /\ findHits[1] # findHits[2]
  /\ findResult = ReturnedFor(2)

\* C12: after onMouseUp no drag is triggered and the armed split index and
\* the projection are undefined.
C12_MouseUpEndsGesture ==
  call.name = "onMouseUp" =>
    /\ ~isDragTriggered_
    /\ ~currentDraggableSplitIndex.def
    /\ ~projectionOntoPath.def

====
